---------------------------- MODULE Spec2Model ----------------------------
(***************************************************************************)
(* State-machine model of the browser demo akiAqui/hello.                  *)
(*                                                                         *)
(* The repository holds several generations of the same UI controller.     *)
(* Each generation is modelled by its own group of variables and its own   *)
(* specification:                                                          *)
(*                                                                         *)
(*   Spec, SpecFair  class App of src/unnamed/part_000 under click, timer, *)
(*                   Escape, model-fetch, engine and dispose events        *)
(*   SpecKeys        the same App under keyboard events (camera moves)     *)
(*   SpecOld         class App of src/src/main.ts.old (click listener)     *)
(*   SpecAudio       class AudioApp of src/src/main.basic.csound.ts        *)
(*   SpecAudioOnly   class App of src/src/main.ts.audio_only               *)
(*   SpecErrors      class ErrorHandler of src/unnamed/part_000            *)
(*   SpecBak         class App of src/src/main.ts.bak2 (audio engine,      *)
(*                   clicks, dispose)                                      *)
(*                                                                         *)
(* The 3D library and the audio engine are opaque collaborators: a call    *)
(* into them is modelled by its visible outcome (resolves / rejects, the   *)
(* object the raycaster reports), drawn nondeterministically.              *)
(***************************************************************************)
EXTENDS Integers, Sequences, FiniteSets, TLC

(***************************************************************************)
(* Bounds of the model (not program constants).                            *)
(***************************************************************************)
\* pending setTimeout callbacks explored at once
MaxTimers == 2
\* meshes inside the fetched GLTF scene
MaxMeshes == 1
\* camera steps explored away from the start position, per axis
MaxCam == 2

(***************************************************************************)
(* Program constants.                                                      *)
(***************************************************************************)
\* setTimeout(..., 5000), in seconds
TimerDelay == 5
\* camera.position.set(5, 5, 5), in units of moveSpeed (0.1)
CameraStart == 50
\* const moveSpeed = 0.1, the unit of the camera coordinates
moveSpeed == 1
\* the six texture paths of createCube
NumCubeTextures == 6

VARIABLES
  \* ---- class App, src/unnamed/part_000 ----
  disposed,          \* this.disposed
  cubeRotating,      \* this.animationState.cubeRotating
  modelScaling,      \* this.animationState.modelScaling
  timers,            \* pending setTimeout callbacks, oldest first
  model,             \* this.model ([present |-> FALSE, ...] is null)
  loadPc,            \* the promise of loadModel(): fetching / resolved / rejected
  scene,             \* this.scene.children
  resourceManager,   \* this.resourceManager
  released,          \* dispose() calls received by each handle
  csound,            \* this.csound
  csoundPc,          \* the promise of initializeCsound()
  stopCalls,         \* stop() calls received by the audio engine
  dom,               \* the App's elements attached to the document
  errorsReported,    \* errors handed to handleError
  listeners,         \* the App's listeners attached to window: [type, fn]
  camera,            \* this.camera.position
  lastKey,           \* the key of the keydown event dispatched last
  \* ---- the other generations, one record each ----
  oldApp,            \* class App of src/src/main.ts.old
  audioApp,          \* class AudioApp of src/src/main.basic.csound.ts
  onlyApp,           \* class App of src/src/main.ts.audio_only
  bakApp,            \* class App of src/src/main.ts.bak2
  errorHandler       \* class ErrorHandler of src/unnamed/part_000

appVars == <<disposed, cubeRotating, modelScaling, timers, model, loadPc,
             scene, resourceManager, released, csound, csoundPc, stopCalls,
             dom, errorsReported, listeners>>
keyVars == <<camera, lastKey>>
outsideApp == <<oldApp, audioApp, onlyApp, bakApp, errorHandler>>
vars == <<appVars, keyVars, outsideApp>>

Null == "null"
Engine == "engine"

(***************************************************************************)
(* Handles of the resource registry.                                       *)
(***************************************************************************)
Texture(i) == <<"texture", "cube", i>>
CubeMaterial(i) == <<"material", "cube", i>>
MeshMaterial(j) == <<"material", "mesh", j>>
MeshGeometry(j) == <<"geometry", "mesh", j>>
FloorGeometry == <<"geometry", "floor", 0>>
FloorMaterial == <<"material", "floor", 0>>
CubeGeometry == <<"geometry", "cube", 0>>
ErrorGeometry == <<"geometry", "error", 0>>
ErrorMaterial == <<"material", "error", 0>>

\* material.map: only the cube materials are built with a texture map
HasMap(h) == h[1] = "material" /\ h[2] = "cube"
MapOf(h) == Texture(h[3])

\* handles registered by the constructor (createEnvironment, createCube)
ConstructedHandles ==
  {FloorGeometry, FloorMaterial, CubeGeometry}
    \cup {Texture(i) : i \in 1..NumCubeTextures}
    \cup {CubeMaterial(i) : i \in 1..NumCubeTextures}

AllHandles ==
  ConstructedHandles \cup {ErrorGeometry, ErrorMaterial}
    \cup {MeshMaterial(j) : j \in 1..MaxMeshes}
    \cup {MeshGeometry(j) : j \in 1..MaxMeshes}

NoModel == [present |-> FALSE, meshes |-> 0]
LoadedModel(m) == [present |-> TRUE, meshes |-> m]

\* the Mesh nodes scene.traverse() visits under a child of the scene,
\* each with its geometry and its materials
MeshesOf(name, mdl) ==
  CASE name = "floor" ->
         {[geometry |-> FloorGeometry, materials |-> {FloorMaterial}]}
    [] name = "cube" ->
         {[geometry |-> CubeGeometry,
           materials |-> {CubeMaterial(i) : i \in 1..NumCubeTextures}]}
    [] name = "model" ->
         {[geometry |-> MeshGeometry(j), materials |-> {MeshMaterial(j)}] :
            j \in 1..mdl.meshes}
    [] name = "errorSphere" ->
         {[geometry |-> ErrorGeometry, materials |-> {ErrorMaterial}]}
    [] OTHER -> {}

Occurrences(seq, x) == Cardinality({i \in DOMAIN seq : seq[i] = x})

(***************************************************************************)
(* class App of src/unnamed/part_000: construction.                        *)
(***************************************************************************)
\* the registry after createEnvironment() and createCube()
ConstructedRegistry ==
  [textures |-> [i \in 1..NumCubeTextures |-> Texture(i)],
   geometries |-> <<FloorGeometry, CubeGeometry>>,
   materials |-> <<FloorMaterial>> \o
                 [i \in 1..NumCubeTextures |-> CubeMaterial(i)]]

\* scene.children after setupLights(), createEnvironment(), createCube()
ConstructedScene ==
  <<"directionalLight", "ambientLight", "pointLight", "floor", "cube">>

\* the state the constructor leaves: the model fetch and the engine
\* initialisation are both in flight
\* the function object made by the n-th method.bind(this)
Bound(method, n) == <<method, n>>

addEventListener(ls, type, fn) == ls \cup {[type |-> type, fn |-> fn]}

\* removes the listener registered with this very function object
removeEventListener(ls, type, fn) == ls \ {[type |-> type, fn |-> fn]}

\* setupEventListeners: each bind() call makes a new function object
ConstructedListeners ==
  addEventListener(
    addEventListener(
      addEventListener(
        addEventListener({}, "click", <<"arrow", 1>>),
        "keydown", Bound("handleKeyDown", 1)),
      "resize", Bound("handleResize", 1)),
    "beforeunload", Bound("dispose", 1))

InitApp ==
  /\ disposed = FALSE
  /\ cubeRotating = FALSE
  /\ modelScaling = FALSE
  /\ timers = <<>>
  /\ model = NoModel
  /\ loadPc = "fetching"
  /\ scene = ConstructedScene
  /\ resourceManager = ConstructedRegistry
  /\ released = [h \in AllHandles |-> 0]
  /\ csound = Null
  /\ csoundPc = "pending"
  /\ stopCalls = 0
  /\ dom = {"canvas", "stats", "instructions"}
  /\ errorsReported = 0
  /\ listeners = ConstructedListeners

InitKeys ==
  /\ camera = [x |-> CameraStart, y |-> CameraStart, z |-> CameraStart]
  /\ lastKey = "none"

(***************************************************************************)
(* loadModel(), setupLoadedModel(), setupModelMesh(), createErrorModel().  *)
(* The operators work on the record                                        *)
(*   [rm, scene, model, errors]                                            *)
(* of the fields the load path writes.                                     *)
(***************************************************************************)
\* this.handleError(error): log the error and show it (no field of App
\* changes); the count records that the error was reported
handleError(st) == [st EXCEPT !.errors = @ + 1]

\* setupModelMesh, applied by traverse() to each of the m meshes
setupModelMesh(rm, m) ==
  [rm EXCEPT !.materials = @ \o [j \in 1..m |-> MeshMaterial(j)],
             !.geometries = @ \o [j \in 1..m |-> MeshGeometry(j)]]

createErrorModel(st) ==
  [st EXCEPT !.scene = Append(@, "errorSphere"),
             !.rm = [@ EXCEPT !.geometries = Append(@, ErrorGeometry),
                              !.materials = Append(@, ErrorMaterial)]]

\* the two throws of setupLoadedModel: no mesh found, zero-size bounding box
SetupThrows(m, zeroSize) == m = 0 \/ zeroSize

\* mutant of setupLoadedModel: the catch block forgets the placeholder
setupLoadedModelNoFallback(st, m, zeroSize) ==
  LET meshed == [st EXCEPT !.rm = setupModelMesh(@, m)]
  IN  IF SetupThrows(m, zeroSize)
        THEN [handleError(meshed) EXCEPT !.model = NoModel]
        ELSE [meshed EXCEPT !.scene = Append(@, "model")]

setupLoadedModel(st, m, zeroSize) ==
  LET meshed == [st EXCEPT !.rm = setupModelMesh(@, m)]
  IN  IF SetupThrows(m, zeroSize)
        THEN createErrorModel([handleError(meshed) EXCEPT !.model = NoModel])
        ELSE [meshed EXCEPT !.scene = Append(@, "model")]

LoadState ==
  [rm |-> resourceManager, scene |-> scene, model |-> model,
   errors |-> errorsReported]

StoreLoadState(st) ==
  /\ resourceManager' = st.rm
  /\ scene' = st.scene
  /\ model' = st.model
  /\ errorsReported' = st.errors

\* the GLTF fetch resolves with a scene of m meshes
FetchResolves(m, zeroSize) ==
  /\ loadPc = "fetching"
  /\ StoreLoadState(setupLoadedModel([LoadState EXCEPT !.model = LoadedModel(m)],
                                     m, zeroSize))
  /\ loadPc' = "resolved"
  /\ UNCHANGED <<disposed, cubeRotating, modelScaling, timers, released,
                 csound, csoundPc, stopCalls, dom, keyVars, outsideApp,
                 listeners>>

\* the GLTF fetch rejects: the catch block of loadModel
FetchRejects ==
  /\ loadPc = "fetching"
  /\ StoreLoadState(createErrorModel(handleError(LoadState)))
  /\ loadPc' = "resolved"
  /\ UNCHANGED <<disposed, cubeRotating, modelScaling, timers, released,
                 csound, csoundPc, stopCalls, dom, keyVars, outsideApp,
                 listeners>>

(***************************************************************************)
(* initializeCsound() of part_000 (called by the constructor).             *)
(***************************************************************************)
CsoundResolves ==
  /\ csoundPc = "pending"
  /\ csound' = Engine
  /\ csoundPc' = "resolved"
  /\ UNCHANGED <<disposed, cubeRotating, modelScaling, timers, model, loadPc,
                 scene, resourceManager, released, stopCalls, dom,
                 errorsReported, keyVars, outsideApp,
                 listeners>>

CsoundRejects ==
  /\ csoundPc = "pending"
  /\ csoundPc' = "rejected"
  /\ errorsReported' = errorsReported + 1
  /\ UNCHANGED <<disposed, cubeRotating, modelScaling, timers, model, loadPc,
                 scene, resourceManager, released, csound, stopCalls, dom,
                 keyVars, outsideApp,
                 listeners>>

(***************************************************************************)
(* Animation state: startCubeRotation, startModelScale, resetAnimations    *)
(* and the setTimeout callbacks.  A timer is [kind, left]: the flag its    *)
(* callback clears and the seconds left before it is due.  All timers have *)
(* the same delay, so they become due in the order they were started.      *)
(***************************************************************************)
NewTimer(kind) == [kind |-> kind, left |-> TimerDelay]

\* mutant of TimerCallback: the disposed guard inverted
TimerCallbackInverted(isDisposed, flag) == IF isDisposed THEN FALSE ELSE flag

\* the callback passed to setTimeout: the new value of the flag it guards
TimerCallback(isDisposed, flag) == IF ~isDisposed THEN FALSE ELSE flag

startCubeRotation ==
  /\ cubeRotating' = TRUE
  /\ timers' = Append(timers, NewTimer("cube"))
  /\ UNCHANGED modelScaling

startModelScale ==
  /\ modelScaling' = TRUE
  /\ timers' = Append(timers, NewTimer("model"))
  /\ UNCHANGED cubeRotating

\* the objects raycaster.intersectObjects([cube, model?]) can report first:
\* nothing, the cube, the model object itself, or a mesh below the model
Hits ==
  {"none", "cube"} \cup (IF model.present THEN {"model", "child"} ELSE {})

\* handleClick: intersects[0].object decides.  playCsoundEvent() is called
\* after startCubeRotation() and writes no field of App.
handleClick(hit) ==
  /\ hit \in Hits
  /\ CASE hit = "cube" -> Len(timers) < MaxTimers /\ startCubeRotation
       [] hit = "model" -> Len(timers) < MaxTimers /\ startModelScale
       [] OTHER -> UNCHANGED <<cubeRotating, modelScaling, timers>>
  /\ UNCHANGED <<disposed, model, loadPc, scene, resourceManager, released,
                 csound, csoundPc, stopCalls, dom, errorsReported, keyVars, outsideApp,
                 listeners>>

\* one second passes; a timer that is due fires before time moves on
Tick ==
  /\ timers # <<>>
  /\ \A i \in DOMAIN timers : timers[i].left > 0
  /\ timers' = [i \in DOMAIN timers |-> [timers[i] EXCEPT !.left = @ - 1]]
  /\ UNCHANGED <<disposed, cubeRotating, modelScaling, model, loadPc, scene,
                 resourceManager, released, csound, csoundPc, stopCalls, dom,
                 errorsReported, keyVars, outsideApp,
                 listeners>>

\* the oldest timer is due: its callback runs
TimerFires ==
  /\ timers # <<>>
  /\ Head(timers).left = 0
  /\ timers' = Tail(timers)
  /\ IF Head(timers).kind = "cube"
       THEN /\ cubeRotating' = TimerCallback(disposed, cubeRotating)
            /\ UNCHANGED modelScaling
       ELSE /\ modelScaling' = TimerCallback(disposed, modelScaling)
            /\ UNCHANGED cubeRotating
  /\ UNCHANGED <<disposed, model, loadPc, scene, resourceManager, released,
                 csound, csoundPc, stopCalls, dom, errorsReported, keyVars, outsideApp,
                 listeners>>

resetAnimations ==
  /\ cubeRotating' = FALSE
  /\ modelScaling' = FALSE

(***************************************************************************)
(* handleKeyDown.                                                          *)
(***************************************************************************)
Keys ==
  {"w", "W", "s", "S", "a", "A", "d", "D", "q", "Q", "e", "E",
   "Escape", "x", "Z", "ArrowUp", " "}

\* mutant of toLowerCase: the key is matched as typed
toLowerCaseOmitted(k) == k

\* String.prototype.toLowerCase on the keys above
toLowerCase(k) ==
  CASE k = "W" -> "w" [] k = "S" -> "s" [] k = "A" -> "a" [] k = "D" -> "d"
    [] k = "Q" -> "q" [] k = "E" -> "e" [] k = "Z" -> "z"
    [] k = "Escape" -> "escape" [] k = "ArrowUp" -> "arrowup"
    [] OTHER -> k

ZeroVector == [x |-> 0, y |-> 0, z |-> 0]

\* the switch of handleKeyDown: moveDistance for the key
moveDistance(key) ==
  LET k == toLowerCase(key)
  IN  CASE k = "w" -> [ZeroVector EXCEPT !.z = -moveSpeed]
        [] k = "s" -> [ZeroVector EXCEPT !.z = moveSpeed]
        [] k = "a" -> [ZeroVector EXCEPT !.x = -moveSpeed]
        [] k = "d" -> [ZeroVector EXCEPT !.x = moveSpeed]
        [] k = "q" -> [ZeroVector EXCEPT !.y = moveSpeed]
        [] k = "e" -> [ZeroVector EXCEPT !.y = -moveSpeed]
        [] OTHER -> ZeroVector

\* Vector3.add
VectorAdd(p, d) == [x |-> p.x + d.x, y |-> p.y + d.y, z |-> p.z + d.z]

InCamBounds(p) ==
  \A c \in {p.x, p.y, p.z} :
    c >= CameraStart - MaxCam /\ c <= CameraStart + MaxCam

handleKeyDown(key) ==
  /\ IF toLowerCase(key) = "escape"
       THEN resetAnimations
       ELSE UNCHANGED <<cubeRotating, modelScaling>>
  /\ camera' = VectorAdd(camera, moveDistance(key))
  /\ InCamBounds(camera')
  /\ UNCHANGED <<disposed, timers, model, loadPc, scene, resourceManager,
                 released, csound, csoundPc, stopCalls, dom, errorsReported,
                 outsideApp,
                 listeners>>

\* a keydown event reaches the window listener
KeyDown(key) ==
  /\ handleKeyDown(key)
  /\ lastKey' = key

\* the Escape key among the events of Spec
EscapeKey ==
  /\ handleKeyDown("Escape")
  /\ UNCHANGED lastKey

(***************************************************************************)
(* dispose(), disposeThreeJsResources(), clearScene(),                     *)
(* cleanupUIComponents().                                                  *)
(***************************************************************************)
\* dispose() calls one handle receives from disposeThreeJsResources():
\* the three forEach loops of the registry, material.map of each
\* registered material, and clearScene()'s traversal of the scene
ReleasesOf(h, rm, sc, mdl) ==
  Occurrences(rm.textures, h)
  + Occurrences(rm.geometries, h)
  + Occurrences(rm.materials, h)
  + Cardinality({i \in DOMAIN rm.materials :
                   HasMap(rm.materials[i]) /\ MapOf(rm.materials[i]) = h})
  + Cardinality({<<i, mesh>> \in
                   UNION {{<<i, me>> : me \in MeshesOf(sc[i], mdl)} :
                            i \in DOMAIN sc} :
                   mesh.geometry = h \/ h \in mesh.materials})

EmptyRegistry == [textures |-> <<>>, geometries |-> <<>>, materials |-> <<>>]

cleanupUIComponents(d) == d \ {"stats", "instructions"}

\* the body of dispose() after the disposed guard
disposeBody ==
  /\ disposed' = TRUE
  /\ resetAnimations
  /\ IF csound # Null
       THEN stopCalls' = stopCalls + 1 /\ csound' = Null
       ELSE UNCHANGED <<stopCalls, csound>>
  /\ released' = [h \in AllHandles |->
                    released[h] + ReleasesOf(h, resourceManager, scene, model)]
  /\ scene' = <<>>
  /\ resourceManager' = EmptyRegistry
  /\ dom' = cleanupUIComponents(dom)
  /\ listeners' =
       removeEventListener(
         removeEventListener(listeners, "resize", Bound("handleResize", 2)),
         "beforeunload", Bound("dispose", 2))
  /\ UNCHANGED <<timers, model, loadPc, csoundPc, errorsReported, keyVars,
                 outsideApp>>

\* mutant of dispose: the disposed guard is missing
disposeUnguarded == disposeBody

dispose ==
  IF disposed THEN UNCHANGED vars ELSE disposeBody

\* app.dispose() called by the host page (hot reload)
Dispose == dispose

\* the beforeunload listener of setupEventListeners: this.dispose
BeforeUnload ==
  /\ \E l \in listeners : l.type = "beforeunload"
  /\ dispose

(***************************************************************************)
(* class App of src/src/main.ts.old.  The fields are those of the class;   *)
(* timers holds the flags of the pending setTimeout callbacks, oldest      *)
(* first (the delay is not modelled here: a pending callback may run at    *)
(* any later step); scoreEvents counts the inputMessage calls the engine   *)
(* received; lastClick is what the raycaster reported for the click the    *)
(* last step handled ("noClick" when the step handled no click).           *)
(***************************************************************************)
\* score events explored
MaxScoreEvents == 2

InitOld ==
  oldApp = [cubeRotating |-> FALSE, modelScaling |-> FALSE, timers |-> <<>>,
            model |-> Null, loadPc |-> "fetching",
            csound |-> Null, csoundPc |-> "create",
            scoreEvents |-> 0, lastClick |-> "noClick"]

OldUnchanged ==
  UNCHANGED <<appVars, keyVars, audioApp, onlyApp, bakApp, errorHandler>>

\* the success callback of loader.load
OldModelLoads ==
  /\ oldApp.loadPc = "fetching"
  /\ oldApp' = [oldApp EXCEPT !.model = "loaded", !.loadPc = "done",
                             !.lastClick = "noClick"]
  /\ OldUnchanged

\* the error callback of loader.load
OldModelFails ==
  /\ oldApp.loadPc = "fetching"
  /\ oldApp' = [oldApp EXCEPT !.loadPc = "done", !.lastClick = "noClick"]
  /\ OldUnchanged

\* initCsound: the awaited call settles; the handle is stored as soon as
\* Csound() resolves, before compileCsdText and start
initCsoundStep(a, ok) ==
  CASE ~ok -> [a EXCEPT !.csoundPc = "failed"]
    [] ok /\ a.csoundPc = "create" ->
         [a EXCEPT !.csound = Engine, !.csoundPc = "compile"]
    [] ok /\ a.csoundPc = "compile" -> [a EXCEPT !.csoundPc = "start"]
    [] ok /\ a.csoundPc = "start" -> [a EXCEPT !.csoundPc = "started"]

OldCsoundSettles(ok) ==
  /\ oldApp.csoundPc \in {"create", "compile", "start"}
  /\ oldApp' = [initCsoundStep(oldApp, ok) EXCEPT !.lastClick = "noClick"]
  /\ OldUnchanged

\* this.csound.inputMessage('i 1 0 5 0.3 220'), guarded by if (this.csound)
oldInputMessage(a) ==
  IF a.csound # Null THEN [a EXCEPT !.scoreEvents = @ + 1] ELSE a

\* mutant of oldClickListener: the score event is sent for the model too
oldClickListenerModelPlays(a, hit) ==
  CASE hit = "cube" ->
         oldInputMessage([a EXCEPT !.cubeRotating = TRUE,
                                   !.timers = Append(@, "cube")])
    [] hit = "model" ->
         oldInputMessage([a EXCEPT !.modelScaling = TRUE,
                                   !.timers = Append(@, "model")])
    [] OTHER -> a

\* the click listener of setupEventListeners, by intersects[0].object
oldClickListener(a, hit) ==
  CASE hit = "cube" ->
         oldInputMessage([a EXCEPT !.cubeRotating = TRUE,
                                   !.timers = Append(@, "cube")])
    [] hit = "model" ->
         [a EXCEPT !.modelScaling = TRUE, !.timers = Append(@, "model")]
    [] OTHER -> a

OldHits ==
  {"none", "cube"} \cup
    (IF oldApp.model # Null THEN {"model", "child"} ELSE {})

OldClick(hit) ==
  /\ hit \in OldHits
  /\ hit \in {"cube", "model"} => Len(oldApp.timers) < MaxTimers
  /\ hit = "cube" /\ oldApp.csound # Null =>
       oldApp.scoreEvents < MaxScoreEvents
  /\ oldApp' = [oldClickListener(oldApp, hit) EXCEPT !.lastClick = hit]
  /\ OldUnchanged

\* intersectObjects([this.cube, this.model!]) with this.model still null:
\* the raycaster may throw on the null entry, and the listener ends there
OldClickThrows ==
  /\ oldApp.model = Null
  /\ oldApp' = [oldApp EXCEPT !.lastClick = "threw"]
  /\ OldUnchanged

\* the callback of the oldest pending setTimeout runs
OldTimerFires ==
  /\ oldApp.timers # <<>>
  /\ oldApp' = IF Head(oldApp.timers) = "cube"
                 THEN [oldApp EXCEPT !.cubeRotating = FALSE,
                                     !.timers = Tail(@),
                                     !.lastClick = "noClick"]
                 ELSE [oldApp EXCEPT !.modelScaling = FALSE,
                                     !.timers = Tail(@),
                                     !.lastClick = "noClick"]
  /\ OldUnchanged

NextOld ==
  \/ OldModelLoads
  \/ OldModelFails
  \/ \E ok \in BOOLEAN : OldCsoundSettles(ok)
  \/ \E hit \in {"none", "cube", "model", "child"} : OldClick(hit)
  \/ OldClickThrows
  \/ OldTimerFires

(***************************************************************************)
(* class AudioApp of src/src/main.basic.csound.ts.                         *)
(*                                                                         *)
(*   csound         this.csound: 0 is null, else the number of an engine   *)
(*   isInitialized  this.isInitialized                                     *)
(*   engines        the engines Csound() has created, by number            *)
(*   inits          the initialize() calls in flight: [pc, target, via],   *)
(*                  pc the await the call is suspended at, target the      *)
(*                  engine the awaited call was made on, via the retry     *)
(*                  button whose onclick awaits the call (0: constructor)  *)
(*   started        initialize() calls made so far                         *)
(*   buttons        the retry buttons attached to document.body            *)
(*   buttonsCreated retry buttons created so far                           *)
(*   clickHandlers  click listeners registered on the document             *)
(*   disposeCalled  dispose() has been called (history, not a field)       *)
(***************************************************************************)
\* initialize() calls explored (the constructor's and the retries)
MaxInits == 3

NewEngine == [compiled |-> FALSE, started |-> FALSE, stopped |-> FALSE]

NewInit(via) == [pc |-> "create", target |-> 0, via |-> via]

InitAudio ==
  audioApp = [csound |-> 0, isInitialized |-> FALSE, engines |-> <<>>,
              inits |-> <<NewInit(0)>>, started |-> 1,
              buttons |-> {}, buttonsCreated |-> 0, clickHandlers |-> 0,
              disposeCalled |-> FALSE]

AudioUnchanged ==
  UNCHANGED <<appVars, keyVars, oldApp, onlyApp, bakApp, errorHandler>>

RemoveAt(seq, i) == SubSeq(seq, 1, i - 1) \o SubSeq(seq, i + 1, Len(seq))

\* createRetryButton: a new button is appended to the body
createRetryButton(a) ==
  [a EXCEPT !.buttonsCreated = @ + 1,
            !.buttons = @ \cup {a.buttonsCreated + 1}]

\* mutant of initializeCatch: the catch block only logs
initializeCatchLogsOnly(a) == a

\* the catch block of initialize()
initializeCatch(a) == createRetryButton(a)

\* setupClickHandler
setupClickHandler(a) == [a EXCEPT !.clickHandlers = @ + 1]

\* retryButton.onclick after its await: initialize() never rejects, so the
\* try branch runs and the button that was clicked is removed
retryOnclickResumes(a, via) ==
  IF via # 0 THEN [a EXCEPT !.buttons = @ \ {via}] ELSE a

\* initializeAudio() threw: initialize() catches, then the caller resumes
initializeFails(a, i) ==
  retryOnclickResumes([initializeCatch(a) EXCEPT !.inits = RemoveAt(@, i)],
                      a.inits[i].via)

\* initializeAudio() returned: initialize() registers the click handler
initializeSucceeds(a, i) ==
  retryOnclickResumes(
    [setupClickHandler(a) EXCEPT !.isInitialized = TRUE,
                                 !.inits = RemoveAt(@, i)],
    a.inits[i].via)

\* the next awaited call of initializeAudio is made on this.csound as it is
\* now; on null the property access throws
AwaitNext(a, i, pc) ==
  IF a.csound = 0
    THEN initializeFails(a, i)
    ELSE [a EXCEPT !.inits[i] = [@ EXCEPT !.pc = pc, !.target = a.csound]]

\* initializeAudio: the call awaited by invocation i settles
initializeAudioStep(a, i, ok) ==
  LET inv == a.inits[i]
  IN  CASE ~ok -> initializeFails(a, i)
        [] ok /\ inv.pc = "create" ->
             LET e == Len(a.engines) + 1
             IN  [a EXCEPT !.engines = Append(@, NewEngine),
                           !.csound = e,
                           !.inits[i] = [@ EXCEPT !.pc = "setOption",
                                                  !.target = e]]
        [] ok /\ inv.pc = "setOption" -> AwaitNext(a, i, "compile")
        [] ok /\ inv.pc = "compile" ->
             AwaitNext([a EXCEPT !.engines[inv.target].compiled = TRUE],
                       i, "start")
        [] ok /\ inv.pc = "start" ->
             \* await this.playSound(): returns at once when csound is null
             LET b == [a EXCEPT !.engines[inv.target].started = TRUE]
             IN  [b EXCEPT !.inits[i] = [@ EXCEPT !.pc = "play",
                                                  !.target = b.csound]]
        [] ok /\ inv.pc = "play" -> initializeSucceeds(a, i)

AudioSettles(i, ok) ==
  /\ i \in DOMAIN audioApp.inits
  /\ audioApp' = initializeAudioStep(audioApp, i, ok)
  /\ AudioUnchanged

\* a click on a retry button: onclick calls initialize()
RetryClick(b) ==
  /\ b \in audioApp.buttons
  /\ audioApp.started < MaxInits
  /\ audioApp' = [audioApp EXCEPT !.inits = Append(@, NewInit(b)),
                                  !.started = @ + 1]
  /\ AudioUnchanged

\* dispose()
audioDispose(a) ==
  IF a.csound # 0
    THEN [a EXCEPT !.engines[a.csound].stopped = TRUE, !.csound = 0,
                   !.disposeCalled = TRUE]
    ELSE [a EXCEPT !.disposeCalled = TRUE]

AudioDispose ==
  /\ audioApp' = audioDispose(audioApp)
  /\ AudioUnchanged

NextAudio ==
  \/ \E i \in 1..MaxInits, ok \in BOOLEAN : AudioSettles(i, ok)
  \/ \E b \in 1..MaxInits : RetryClick(b)
  \/ AudioDispose

(***************************************************************************)
(* class App of src/src/main.ts.audio_only.                                *)
(*                                                                         *)
(* The class body declares setupUI twice.  ui says which declaration is    *)
(* in effect: "button" is the first (the Enable Audio button and the       *)
(* guarded document listener), "plain" the second (instructions and a      *)
(* document listener that calls handleClick).                              *)
(*                                                                         *)
(*   csound       this.csound: 0 is null, else the number of an engine     *)
(*   engines      the engines Csound() has created                         *)
(*   calls        the initializeCsound() calls in flight: [pc, opt]        *)
(*   started      initializeCsound() calls that reached Csound()           *)
(*   button       the label of startAudioButton, or "removed" / "absent"   *)
(*   disposed     this.disposed                                            *)
(*   scoreEvents  inputMessage calls made by handleClick                   *)
(*   docClicks    document clicks dispatched outside the button            *)
(***************************************************************************)
\* document clicks explored
MaxClicks == 2
\* initializeCsound() calls that reach Csound()
MaxCalls == 2
\* the seven entries of the options array
NumOptions == 7

\* the identifier csd is used by initializeCsound but the file neither
\* imports nor declares it: evaluating it throws a ReferenceError
csdBound == FALSE

\* this.audioInitialized is read by the document listener and assigned
\* nowhere: it stays undefined
audioInitialized == FALSE

OnlyConstructed(ui) ==
  [ui |-> ui, csound |-> 0, engines |-> <<>>, calls |-> <<>>, started |-> 0,
   button |-> IF ui = "button" THEN "Enable Audio" ELSE "absent",
   disposed |-> FALSE, scoreEvents |-> 0, docClicks |-> 0]

\* the later declaration of a class member is the one in effect
InitOnly == onlyApp = OnlyConstructed("plain")

\* either declaration of setupUI
InitOnlyEither == \E ui \in {"button", "plain"} : onlyApp = OnlyConstructed(ui)

OnlyUnchanged ==
  UNCHANGED <<appVars, keyVars, oldApp, audioApp, bakApp, errorHandler>>

ButtonPresent(a) == a.button \notin {"removed", "absent"}

\* startAudioButton.onclick after its await, when initializeCsound resolved
onclickResolved(a) == [a EXCEPT !.button = "removed"]

\* startAudioButton.onclick after its await, when initializeCsound rejected
onclickRejected(a) ==
  IF ButtonPresent(a)
    THEN [a EXCEPT !.button = "Failed - Click to retry"]
    ELSE a

\* the catch block of initializeCsound rethrows to the onclick handler
initializeCsoundFails(a, i) ==
  onclickRejected([a EXCEPT !.calls = RemoveAt(@, i)])

initializeCsoundResolves(a, i) ==
  onclickResolved([a EXCEPT !.calls = RemoveAt(@, i)])

\* the next awaited call is made on this.csound as it is now
OnlyAwaitNext(a, i, pc, opt) ==
  IF a.csound = 0
    THEN initializeCsoundFails(a, i)
    ELSE [a EXCEPT !.calls[i] = [pc |-> pc, opt |-> opt,
                                 target |-> a.csound]]

\* initializeCsound: the call awaited by invocation i settles
initializeCsoundStep(a, i, ok) ==
  LET c == a.calls[i]
  IN  CASE ~ok -> initializeCsoundFails(a, i)
        [] ok /\ c.pc = "create" ->
             LET e == Len(a.engines) + 1
             IN  [a EXCEPT !.engines = Append(@, NewEngine),
                           !.csound = e,
                           !.calls[i] = [pc |-> "option", opt |-> 1,
                                         target |-> e]]
        [] ok /\ c.pc = "option" /\ c.opt < NumOptions ->
             OnlyAwaitNext(a, i, "option", c.opt + 1)
        [] ok /\ c.pc = "option" /\ c.opt = NumOptions ->
             IF csdBound
               THEN OnlyAwaitNext(a, i, "compile", 0)
               ELSE initializeCsoundFails(a, i)
        [] ok /\ c.pc = "compile" ->
             OnlyAwaitNext([a EXCEPT !.engines[c.target].compiled = TRUE],
                           i, "start", 0)
        [] ok /\ c.pc = "start" ->
             OnlyAwaitNext([a EXCEPT !.engines[c.target].started = TRUE],
                           i, "note", 0)
        [] ok /\ c.pc = "note" -> initializeCsoundResolves(a, i)

\* initializeCsound up to its first await: "if (this.csound) return"
\* resolves at once, else Csound() is awaited
initializeCsoundEntry(a) ==
  IF a.csound # 0
    THEN onclickResolved(a)
    ELSE [a EXCEPT !.calls = Append(@, [pc |-> "create", opt |-> 0,
                                        target |-> 0]),
                   !.started = @ + 1]

\* a click on the Enable Audio button
ButtonClick ==
  /\ ButtonPresent(onlyApp)
  /\ onlyApp.csound = 0 => onlyApp.started < MaxCalls
  /\ onlyApp' = initializeCsoundEntry(onlyApp)
  /\ OnlyUnchanged

OnlySettles(i, ok) ==
  /\ i \in DOMAIN onlyApp.calls
  /\ onlyApp' = initializeCsoundStep(onlyApp, i, ok)
  /\ OnlyUnchanged

\* handleClick
onlyHandleClick(a) ==
  IF a.csound = 0 THEN a ELSE [a EXCEPT !.scoreEvents = @ + 1]

\* the document click listener for a click outside the button
documentClick(a) ==
  IF a.ui = "button"
    THEN (IF audioInitialized THEN onlyHandleClick(a) ELSE a)
    ELSE onlyHandleClick(a)

DocClick ==
  /\ onlyApp.docClicks < MaxClicks
  /\ onlyApp' = [documentClick(onlyApp) EXCEPT !.docClicks = @ + 1]
  /\ OnlyUnchanged

\* dispose()
onlyDispose(a) ==
  IF a.disposed
    THEN a
    ELSE IF a.csound # 0
           THEN [a EXCEPT !.disposed = TRUE,
                          !.engines[a.csound].stopped = TRUE, !.csound = 0]
           ELSE [a EXCEPT !.disposed = TRUE]

OnlyDispose ==
  /\ onlyApp' = onlyDispose(onlyApp)
  /\ OnlyUnchanged

NextOnly ==
  \/ ButtonClick
  \/ \E i \in 1..MaxCalls, ok \in BOOLEAN : OnlySettles(i, ok)
  \/ DocClick
  \/ OnlyDispose

(***************************************************************************)
(* class App of src/src/main.ts.bak2: the audio engine, the click handler  *)
(* and dispose().  The rendering resources of this generation are not part *)
(* of the record.                                                          *)
(*                                                                         *)
(*   disposed         this.disposed                                        *)
(*   csound           this.csound: 0 is null, else the number of an engine *)
(*   engines          the engines Csound() has created                     *)
(*   csoundPc, opt    the await initializeCsound() is suspended at, and    *)
(*                    the number of the option being set                   *)
(*   button           the start button: absent, its label, or removed      *)
(*   starts           start() calls of the button's onclick in flight      *)
(*   cubeRotating, modelScaling, timers   as in main.ts.old                *)
(*   scoreEvents      inputMessage calls made                              *)
(*   listeners        the listeners attached to window, by event type      *)
(*   cleanupCallbacks this.cleanupCallbacks                                *)
(*   callbacksRun     how often each cleanup callback has run              *)
(*   dom              the stats panel and the instructions                 *)
(*   stopCalls, errors   stop() calls made, errors handed to handleError   *)
(*   loadPc           the promise of loadModel(): fetching, resolved or    *)
(*                    rejected                                             *)
(*   model            this.model: null, gltf (the loaded scene) or         *)
(*                    fallback (the red wireframe box)                     *)
(*   scene            the model-slot objects added to this.scene           *)
(*   asyncPc          the promise of initializeAsyncComponents()           *)
(***************************************************************************)
\* start() calls in flight explored
MaxStarts == 2

\* this.resetAnimations is called by dispose() and handleKeyDown, and the
\* class declares no such method
resetAnimationsDefined == FALSE

StartLabel == "Click to Enable Audio"
StartFailedLabel == "Failed to start audio. Click to retry."

InitBak ==
  bakApp = [disposed |-> FALSE, csound |-> 0, engines |-> <<>>,
            csoundPc |-> "create", opt |-> 0,
            button |-> "absent", starts |-> 0,
            cubeRotating |-> FALSE, modelScaling |-> FALSE, timers |-> <<>>,
            scoreEvents |-> 0,
            listeners |-> {"click", "resize", "keydown"},
            cleanupCallbacks |-> <<"removeListeners">>,
            callbacksRun |-> 0,
            dom |-> {"stats", "instructions"},
            stopCalls |-> 0, errors |-> 0,
            loadPc |-> "fetching", model |-> Null, scene |-> <<>>,
            asyncPc |-> "pending"]

BakUnchanged ==
  UNCHANGED <<appVars, keyVars, oldApp, audioApp, onlyApp, errorHandler>>

\* initializeAsyncComponents after await Promise.all([loadModel(),
\* initializeCsound()]): it resumes when both promises are fulfilled, or as
\* soon as one is rejected; its own rejection goes to the constructor's
\* .catch, which reports it
initializeAsyncComponents(a) ==
  IF a.asyncPc # "pending"
    THEN a
    ELSE IF a.loadPc = "rejected" \/ a.csoundPc = "rejected"
           THEN [a EXCEPT !.asyncPc = "rejected", !.errors = @ + 1]
           ELSE IF a.loadPc = "resolved" /\ a.csoundPc \in {"done", "failed"}
                  THEN [a EXCEPT !.asyncPc = "resolved"]
                  ELSE a

\* mutant of bakInitializeCsoundCatch: the catch block rethrows
bakInitializeCsoundCatchRethrows(a) ==
  [a EXCEPT !.csoundPc = "rejected", !.errors = @ + 1]

\* the catch block of initializeCsound: report, do not rethrow
bakInitializeCsoundCatch(a) ==
  [a EXCEPT !.csoundPc = "failed", !.errors = @ + 1]

\* the next awaited call is made on this.csound as it is now
bakAwaitNext(a, pc, opt) ==
  IF a.csound = 0
    THEN bakInitializeCsoundCatch(a)
    ELSE [a EXCEPT !.csoundPc = pc, !.opt = opt]

\* initializeCsound: the awaited call settles.  The handle is stored as
\* soon as Csound() resolves; the start button is created after
\* compileCsdText, and start() is left to the button.
bakInitializeCsoundStep(a, ok) ==
  CASE ~ok -> bakInitializeCsoundCatch(a)
    [] ok /\ a.csoundPc = "create" ->
         [a EXCEPT !.engines = Append(@, NewEngine),
                   !.csound = Len(a.engines) + 1,
                   !.csoundPc = "option", !.opt = 1]
    [] ok /\ a.csoundPc = "option" ->
         IF a.opt < NumOptions
           THEN bakAwaitNext(a, "option", a.opt + 1)
           ELSE bakAwaitNext(a, "compile", 0)
    [] ok /\ a.csoundPc = "compile" ->
         [a EXCEPT !.engines[1].compiled = TRUE,
                   !.button = StartLabel,
                   !.csoundPc = "done"]

BakCsoundSettles(ok) ==
  /\ bakApp.csoundPc \in {"create", "option", "compile"}
  /\ bakApp' = initializeAsyncComponents(bakInitializeCsoundStep(bakApp, ok))
  /\ BakUnchanged

\* createFallbackModel
createFallbackModel(a) ==
  [a EXCEPT !.model = "fallback", !.scene = Append(@, "fallback")]

\* setupLoadedModel: the loaded scene is placed and added
bakSetupLoadedModel(a) ==
  IF a.model = Null THEN a ELSE [a EXCEPT !.scene = Append(@, a.model)]

\* the catch block of loadModel: report, then the fallback box
bakLoadModelCatch(a) == createFallbackModel([a EXCEPT !.errors = @ + 1])

\* what loader.load ends with: a scene with meshes, a result that
\* validateLoadedModel refuses, or a load error (which loadingManager.onError
\* reports as well)
FetchOutcomes == {"valid", "invalid", "error"}

\* loadModel after its await
bakLoadModel(a, outcome) ==
  LET settled == [a EXCEPT !.loadPc = "resolved"]
  IN  CASE outcome = "valid" ->
             bakSetupLoadedModel([settled EXCEPT !.model = "gltf"])
        [] outcome = "invalid" -> bakLoadModelCatch(settled)
        [] outcome = "error" ->
             bakLoadModelCatch([settled EXCEPT !.errors = @ + 1])

BakLoadSettles(outcome) ==
  /\ bakApp.loadPc = "fetching"
  /\ bakApp' = initializeAsyncComponents(bakLoadModel(bakApp, outcome))
  /\ BakUnchanged

BakButtonPresent(a) == a.button \in {StartLabel, StartFailedLabel}

\* startAudioButton.onclick up to its await: this.csound.start()
bakStartOnclick(a) ==
  IF a.csound = 0
    THEN [a EXCEPT !.button = StartFailedLabel]
    ELSE [a EXCEPT !.starts = @ + 1]

\* startAudioButton.onclick after its await
bakStartSettles(a, ok) ==
  IF ok
    THEN [a EXCEPT !.starts = @ - 1, !.engines[1].started = TRUE,
                   !.button = "removed"]
    ELSE [a EXCEPT !.starts = @ - 1,
                   !.button = IF BakButtonPresent(a)
                                THEN StartFailedLabel ELSE @]

BakStartClick ==
  /\ BakButtonPresent(bakApp)
  /\ bakApp.starts < MaxStarts
  /\ bakApp' = bakStartOnclick(bakApp)
  /\ BakUnchanged

BakStartSettles(ok) ==
  /\ bakApp.starts > 0
  /\ bakApp' = bakStartSettles(bakApp, ok)
  /\ BakUnchanged

\* this.csound.inputMessage('i 1 0 5 0.3 220'), guarded by if (this.csound)
bakInputMessage(a) ==
  IF a.csound # 0 THEN [a EXCEPT !.scoreEvents = @ + 1] ELSE a

\* handleClick, by intersects[0].object
bakHandleClick(a, hit) ==
  CASE hit = "cube" ->
         bakInputMessage([a EXCEPT !.cubeRotating = TRUE,
                                   !.timers = Append(@, "cube")])
    [] hit = "model" ->
         [a EXCEPT !.modelScaling = TRUE, !.timers = Append(@, "model")]
    [] OTHER -> a

\* a click on window reaches handleClick while the listener is attached
BakClick(hit) ==
  /\ "click" \in bakApp.listeners
  /\ hit \in {"none", "cube", "model"}
  /\ hit \in {"cube", "model"} => Len(bakApp.timers) < MaxTimers
  /\ hit = "cube" /\ bakApp.csound # 0 =>
       bakApp.scoreEvents < MaxScoreEvents
  /\ bakApp' = bakHandleClick(bakApp, hit)
  /\ BakUnchanged

\* the callback of the oldest pending setTimeout runs
BakTimerFires ==
  /\ bakApp.timers # <<>>
  /\ bakApp' = IF Head(bakApp.timers) = "cube"
                 THEN [bakApp EXCEPT !.cubeRotating = FALSE,
                                     !.timers = Tail(@)]
                 ELSE [bakApp EXCEPT !.modelScaling = FALSE,
                                     !.timers = Tail(@)]
  /\ BakUnchanged

\* the callback pushed by setupEventListeners
bakRunCleanupCallbacks(a) ==
  [a EXCEPT !.listeners = @ \ {"click", "resize", "keydown"},
            !.callbacksRun = @ + Len(a.cleanupCallbacks),
            !.cleanupCallbacks = <<>>]

\* the try block of dispose() after this.resetAnimations()
bakDisposeRest(a) ==
  LET stopped == IF a.csound # 0
                   THEN [a EXCEPT !.engines[a.csound].stopped = TRUE,
                                  !.stopCalls = @ + 1, !.csound = 0]
                   ELSE a
  IN  [bakRunCleanupCallbacks(stopped) EXCEPT
         !.scene = <<>>,
         !.dom = @ \ {"stats", "instructions"}]

\* dispose(): the call of the missing this.resetAnimations throws a
\* TypeError inside the try block, and the catch block reports it
bakDispose(a) ==
  IF a.disposed
    THEN a
    ELSE IF resetAnimationsDefined
           THEN bakDisposeRest([a EXCEPT !.disposed = TRUE,
                                         !.cubeRotating = FALSE,
                                         !.modelScaling = FALSE])
           ELSE [a EXCEPT !.disposed = TRUE, !.errors = @ + 1]

BakDispose ==
  /\ ~bakApp.disposed
  /\ bakApp' = bakDispose(bakApp)
  /\ BakUnchanged

NextBak ==
  \/ \E ok \in BOOLEAN : BakCsoundSettles(ok)
  \/ \E outcome \in FetchOutcomes : BakLoadSettles(outcome)
  \/ BakStartClick
  \/ \E ok \in BOOLEAN : BakStartSettles(ok)
  \/ \E hit \in {"none", "cube", "model"} : BakClick(hit)
  \/ BakTimerFires
  \/ BakDispose

(***************************************************************************)
(* class ErrorHandler of src/unnamed/part_000.  Time is counted in units   *)
(* of 500 ms.                                                              *)
(*                                                                         *)
(*   classesBound  whether the identifiers WebGLContextLossError and       *)
(*                 OutOfMemoryError, which the file neither declares nor   *)
(*                 imports, are bound by the page                          *)
(*   toasts        the children of errorContainer, oldest first:           *)
(*                 [text, opacity, left, age], left the time before the    *)
(*                 toast's pending timer is due, age the time since the    *)
(*                 toast was shown (counted up to ERROR_DISPLAY_DURATION)  *)
(*   calls         handleError calls made                                  *)
(*   threw         the last handleError call ended in an exception         *)
(*   reported      errors passed to reportErrorToService                   *)
(***************************************************************************)
\* handleError calls explored
MaxErrors == 3

\* the static field: 5000 ms
ERROR_DISPLAY_DURATION == 10

\* the delay of the inner setTimeout: 500 ms
FadeDuration == 1

\* this.ERROR_DISPLAY_DURATION read on an instance: the field is static, so
\* the instance has no such property
InstanceDisplayDuration == "undefined"

\* setTimeout converts its delay to a number; undefined becomes 0
TimeoutDelay(d) == IF d = "undefined" THEN 0 ELSE d

ErrorKinds ==
  {"WebGL context lost", "Out of memory", "Failed to load resource",
   "Invalid model data", "other", "nonError"}

\* getUserFriendlyMessage, and the message formatError gives a non-Error
userMessage(kind) ==
  CASE kind = "WebGL context lost" -> "reload the page"
    [] kind = "Out of memory" -> "close other applications"
    [] kind = "Failed to load resource" -> "check the connection"
    [] kind = "Invalid model data" -> "model failed to load"
    [] kind = "other" -> "unexpected error."
    [] kind = "nonError" -> "unexpected error"

\* formatError: severity is critical when the message includes 'WebGL'
severity(kind) ==
  IF kind = "WebGL context lost" THEN "critical" ELSE "normal"

ErrConstructed(bound) ==
  [classesBound |-> bound, toasts |-> <<>>, calls |-> 0, threw |-> FALSE,
   reported |-> 0]

\* a module that declares neither class
InitErrors == errorHandler = ErrConstructed(FALSE)

\* the page may or may not define the two classes as globals
InitErrorsEither ==
  \E bound \in BOOLEAN : errorHandler = ErrConstructed(bound)

ErrUnchanged ==
  UNCHANGED <<appVars, keyVars, oldApp, audioApp, onlyApp, bakApp>>

\* showErrorToUser: one element appended, the outer timer started
showErrorToUser(h, text) ==
  [h EXCEPT !.toasts =
     Append(@, [text |-> text, opacity |-> 1,
                left |-> TimeoutDelay(InstanceDisplayDuration),
                age |-> 0])]

\* handleError: formatError evaluates "error instanceof
\* WebGLContextLossError" and throws a ReferenceError when the identifier
\* is unbound, before anything is shown
errHandleError(h, kind) ==
  LET called == [h EXCEPT !.calls = @ + 1]
  IN  IF ~h.classesBound
        THEN [called EXCEPT !.threw = TRUE]
        ELSE LET shown == showErrorToUser([called EXCEPT !.threw = FALSE],
                                          userMessage(kind))
             IN  IF severity(kind) = "critical"
                   THEN [shown EXCEPT !.reported = @ + 1]
                   ELSE shown

ErrHandleError(kind) ==
  /\ errorHandler.calls < MaxErrors
  /\ errorHandler' = errHandleError(errorHandler, kind)
  /\ ErrUnchanged

\* 500 ms pass; a timer that is due fires before time moves on
ErrTick ==
  /\ errorHandler.toasts # <<>>
  /\ \A i \in DOMAIN errorHandler.toasts : errorHandler.toasts[i].left > 0
  /\ errorHandler' =
       [errorHandler EXCEPT !.toasts =
          [i \in DOMAIN @ |->
             [@[i] EXCEPT !.left = @ - 1,
                          !.age = IF @ < ERROR_DISPLAY_DURATION
                                    THEN @ + 1 ELSE @]]]
  /\ ErrUnchanged

\* the outer timer of toast i fires: opacity 0, the inner timer started
ErrFadeStarts(i) ==
  /\ i \in DOMAIN errorHandler.toasts
  /\ errorHandler.toasts[i].opacity = 1
  /\ errorHandler.toasts[i].left = 0
  /\ errorHandler' =
       [errorHandler EXCEPT !.toasts[i] =
          [@ EXCEPT !.opacity = 0, !.left = FadeDuration]]
  /\ ErrUnchanged

\* the inner timer of toast i fires: the element is removed
ErrToastRemoved(i) ==
  /\ i \in DOMAIN errorHandler.toasts
  /\ errorHandler.toasts[i].opacity = 0
  /\ errorHandler.toasts[i].left = 0
  /\ errorHandler' = [errorHandler EXCEPT !.toasts = RemoveAt(@, i)]
  /\ ErrUnchanged

NextErrors ==
  \/ \E kind \in ErrorKinds : ErrHandleError(kind)
  \/ ErrTick
  \/ \E i \in 1..MaxErrors : ErrFadeStarts(i)
  \/ \E i \in 1..MaxErrors : ErrToastRemoved(i)

(***************************************************************************)
(* Specifications.                                                         *)
(***************************************************************************)
Init ==
  InitApp /\ InitKeys /\ InitOld /\ InitAudio /\ InitOnly /\ InitBak
    /\ InitErrors

Next ==
  \/ \E m \in 0..MaxMeshes, zeroSize \in BOOLEAN : FetchResolves(m, zeroSize)
  \/ FetchRejects
  \/ CsoundResolves
  \/ CsoundRejects
  \/ \E hit \in {"none", "cube", "model", "child"} : handleClick(hit)
  \/ Tick
  \/ TimerFires
  \/ EscapeKey
  \/ Dispose
  \/ BeforeUnload

Spec == Init /\ [][Next]_vars

\* timers are run by the browser: time passes and a due callback is called
SpecFair == Spec /\ WF_vars(Tick) /\ WF_vars(TimerFires)

\* the App under keyboard events
NextKeys == \E key \in Keys : KeyDown(key)

SpecKeys == Init /\ [][NextKeys]_vars

SpecOld == Init /\ [][NextOld]_vars

SpecAudio == Init /\ [][NextAudio]_vars

InitAudioOnly ==
  InitApp /\ InitKeys /\ InitOld /\ InitAudio /\ InitOnlyEither /\ InitBak
    /\ InitErrors

SpecAudioOnly == InitAudioOnly /\ [][NextOnly]_vars

SpecBak == Init /\ [][NextBak]_vars

\* the fetch and the engine's calls end: each pending promise settles
SpecBakFair ==
  /\ SpecBak
  /\ WF_vars(\E ok \in BOOLEAN : BakCsoundSettles(ok))
  /\ WF_vars(\E outcome \in FetchOutcomes : BakLoadSettles(outcome))

InitErrorHandler ==
  InitApp /\ InitKeys /\ InitOld /\ InitAudio /\ InitOnly /\ InitBak
    /\ InitErrorsEither

SpecErrors == InitErrorHandler /\ [][NextErrors]_vars

(***************************************************************************)
(* Claims about class App of src/unnamed/part_000.                         *)
(***************************************************************************)

\* C1: a flag set by a click while the app is not disposed becomes false
\* again (its timer clears it, or Escape or dispose() reset it first).
C1_FlagsExpire ==
  /\ (cubeRotating /\ ~disposed) ~> ~cubeRotating
  /\ (modelScaling /\ ~disposed) ~> ~modelScaling

\* both flags were set by clicks on a live app and the oldest timer is due
C1_Witness ==
  /\ ~disposed /\ cubeRotating /\ modelScaling
  /\ Len(timers) = 2 /\ Head(timers).left = 0

TimerClears(kind, flag, flagNext) ==
  /\ timers # <<>>
  /\ timers' = Tail(timers)
  /\ Head(timers).kind = kind
  /\ flag /\ ~flagNext

NoneRunning(kind, ts) ==
  \A i \in DOMAIN ts : ts[i].kind = kind => ts[i].left = 0

\* C2 (as claimed): after dispose() every handle the constructor registered
\* has received exactly one dispose() call.
C2_ReleasedExactlyOnce ==
  disposed => \A h \in ConstructedHandles : released[h] = 1

\* C3: from a disposed state no step stops the engine, releases a handle or
\* removes an element again, and a further dispose() call changes nothing.
C3_DisposeIdempotent ==
  [][disposed =>
       /\ disposed'
       /\ UNCHANGED <<stopCalls, released, dom>>
       /\ (Dispose \/ BeforeUnload) => UNCHANGED vars]_vars

\* dispose() has run on an app that held an engine and a loaded model
C3_Witness ==
  /\ disposed /\ stopCalls = 1 /\ dom = {"canvas"}
  /\ released[MeshGeometry(1)] > 0

C7_Promised(k) ==
  CASE k \in {"w", "W"} -> [x |-> 0, y |-> 0, z |-> -1]
    [] k \in {"s", "S"} -> [x |-> 0, y |-> 0, z |-> 1]
    [] k \in {"a", "A"} -> [x |-> -1, y |-> 0, z |-> 0]
    [] k \in {"d", "D"} -> [x |-> 1, y |-> 0, z |-> 0]
    [] k \in {"q", "Q"} -> [x |-> 0, y |-> 1, z |-> 0]
    [] k \in {"e", "E"} -> [x |-> 0, y |-> -1, z |-> 0]
    [] OTHER -> [x |-> 0, y |-> 0, z |-> 0]

C7_OppositePairs ==
  {<<"w", "s">>, <<"s", "w">>, <<"a", "d">>, <<"d", "a">>, <<"q", "e">>,
   <<"e", "q">>, <<"W", "s">>, <<"A", "D">>, <<"Q", "e">>}

\* C7: a keydown moves the camera by the step promised for its key (none
\* for any other key), and an opposite pair restores the position.
C7_KeyMoves ==
  /\ [][camera' = VectorAdd(camera, C7_Promised(lastKey'))]_vars
  /\ [](\A pr \in C7_OppositePairs :
          VectorAdd(VectorAdd(camera, moveDistance(pr[1])),
                    moveDistance(pr[2])) = camera)

\* an upper-case W moved the camera one step along -z
C7_Witness ==
  /\ lastKey = "W"
  /\ camera = [x |-> CameraStart, y |-> CameraStart, z |-> CameraStart - 1]

\* C10 (as claimed): a timer that clears a flag is the timer of the most
\* recent click on that object: no later timer of the kind is still running.
C10_FullFiveSeconds ==
  [][/\ TimerClears("cube", cubeRotating, cubeRotating') =>
          NoneRunning("cube", timers')
     /\ TimerClears("model", modelScaling, modelScaling') =>
          NoneRunning("model", timers')]_vars

(***************************************************************************)
(* Claims about the other generations.                                     *)
(***************************************************************************)

\* C5: when audio is not initialised and no initialize() call is in flight
\* (so every call made has failed), a retry button is in the document.
C5_RetryAvailable ==
  (~audioApp.isInitialized /\ audioApp.inits = <<>>) =>
    audioApp.buttons # {}

\* a retry started from a retry button has failed as well
C5_Witness ==
  /\ ~audioApp.isInitialized /\ audioApp.inits = <<>>
  /\ audioApp.started >= 2 /\ audioApp.buttonsCreated >= 2

C12_InitializedEngineStarted ==
  (audioApp.isInitialized /\ audioApp.csound # 0) =>
    /\ audioApp.engines[audioApp.csound].compiled
    /\ audioApp.engines[audioApp.csound].started

\* C15 (as claimed): after dispose() has been called and every pending
\* initialization has settled, this.csound is null and no engine is left
\* started without having been stopped.
C15_DisposedHoldsNoEngine ==
  (audioApp.disposeCalled /\ audioApp.inits = <<>>) =>
    /\ audioApp.csound = 0
    /\ \A e \in DOMAIN audioApp.engines :
         audioApp.engines[e].started => audioApp.engines[e].stopped

\* C16 (as claimed): at most one click handler is ever registered on the
\* document.
C16_OneClickHandler == audioApp.clickHandlers <= 1

\* C17 (as claimed): with no initialization in flight at most one retry
\* button is in the document, and none once isInitialized is true.
C17_AtMostOneRetryButton ==
  audioApp.inits = <<>> =>
    /\ Cardinality(audioApp.buttons) <= 1
    /\ audioApp.isInitialized => audioApp.buttons = {}

\* C18 (as claimed): when the initialization started by a click on a retry
\* button fails (its catch block creates a button), the button that was
\* clicked stays in the document.
C18_FailedRetryKeepsButton ==
  [][\A i \in DOMAIN audioApp.inits :
       (/\ audioApp.inits[i].via # 0
        /\ audioApp.inits[i].via \in audioApp.buttons
        /\ audioApp'.inits = RemoveAt(audioApp.inits, i)
        /\ audioApp'.buttonsCreated = audioApp.buttonsCreated + 1) =>
         audioApp.inits[i].via \in audioApp'.buttons]_vars

(***************************************************************************)
(* Claims about class App of src/unnamed/part_000 after dispose().         *)
(***************************************************************************)

\* C14 (as claimed): once dispose() has run, no step adds a handle to the
\* resource registry or an object to the scene.
C14_NothingAddedAfterDispose ==
  [][disposed => /\ resourceManager' = resourceManager
                 /\ scene' = scene]_vars

\* C19 (as claimed): after dispose() no resize or beforeunload listener of
\* the App is attached to window.
C19_ListenersDetached ==
  disposed => \A l \in listeners : l.type \notin {"resize", "beforeunload"}

(***************************************************************************)
(* Claims about the audio engine and dispose() of main.ts.bak2 and         *)
(* main.ts.audio_only.                                                     *)
(***************************************************************************)

\* C11 (as claimed): a score event is sent only to an engine on which
\* compileCsdText has completed and start() has resolved.
C11_EventOnlyAfterStart ==
  [][bakApp'.scoreEvents > bakApp.scoreEvents =>
       /\ bakApp.csound # 0
       /\ bakApp.engines[bakApp.csound].compiled
       /\ bakApp.engines[bakApp.csound].started]_vars

C20_DisposeRunsCleanup ==
  bakApp.disposed =>
    /\ bakApp.callbacksRun = 1
    /\ bakApp.cleanupCallbacks = <<>>
    /\ bakApp.listeners = {}
    /\ \A e \in DOMAIN bakApp.engines : bakApp.engines[e].stopped

(***************************************************************************)
(* Claims about class ErrorHandler of src/unnamed/part_000.                *)
(***************************************************************************)

\* C21 (as claimed): every handleError call completes and adds its toast,
\* and a toast that has started to fade was at full opacity for
\* ERROR_DISPLAY_DURATION.
C21_ToastShownFullDuration ==
  /\ ~errorHandler.threw
  /\ \A i \in DOMAIN errorHandler.toasts :
       errorHandler.toasts[i].opacity = 0 =>
         errorHandler.toasts[i].age >= ERROR_DISPLAY_DURATION

(***************************************************************************)
(* Claims about the asynchronous start-up of main.ts.bak2.                 *)
(***************************************************************************)

\* C22: loadModel() and initializeCsound() never reject; whatever the
\* engine does, a settled loadModel() has added exactly one object (the
\* model or the fallback box); whatever the fetch does, the engine's set-up
\* runs on; and initializeAsyncComponents() resolves, never rejects.
C22_AsyncComponentsResolve ==
  /\ [](/\ bakApp.loadPc # "rejected"
        /\ bakApp.csoundPc # "rejected"
        /\ bakApp.asyncPc # "rejected"
        /\ bakApp.loadPc = "resolved" =>
             /\ Len(bakApp.scene) = 1
             /\ bakApp.scene[1] = bakApp.model
        /\ bakApp.asyncPc = "resolved" <=>
             (bakApp.loadPc = "resolved"
                /\ bakApp.csoundPc \in {"done", "failed"}))
  /\ []((bakApp.loadPc = "resolved" /\ bakApp.model = "fallback") =>
          <>(bakApp.csoundPc \in {"done", "failed"}))
  /\ <>(bakApp.asyncPc = "resolved")

\* the fetch failed and the engine was compiled all the same
C22_Witness ==
  /\ bakApp.asyncPc = "resolved"
  /\ bakApp.model = "fallback" /\ bakApp.scene = <<"fallback">>
  /\ bakApp.csoundPc = "done" /\ bakApp.errors > 0

=============================================================================
